---- MODULE Spec2Model ----
(***************************************************************************)
(* A model of the recursive-descent parser of semver-parser                *)
(* (src/src/parser.rs).  The parser object is the state machine: its state *)
(* is the token source's cursor and the one-token lookahead c1, and every  *)
(* public method is one action.  The grammar rules are operators on the    *)
(* parser state, translated rule by rule from the source.                  *)
(***************************************************************************)
EXTENDS Integers, Sequences, FiniteSets, TLC

VARIABLES input, c1, pos, last

vars == <<input, c1, pos, last>>

(***************************************************************************)
(* Bounds of the model.                                                    *)
(***************************************************************************)
\* Every stream over CoreAlphabet of at most this many items is an input.
MaxLen == 3
\* Numeric tokens of the composed inputs take the values 0..MaxNum.
MaxNum == 3

(***************************************************************************)
(* Tokens (lexer::Token) and the items the token source yields.  An item   *)
(* of kind "LexError" is an Err(lexer::Error) yielded by the source.       *)
(***************************************************************************)
T(k) == [k |-> k, v |-> 0]
Num(n) == [k |-> "Numeric", v |-> n]
Alpha(n) == [k |-> "AlphaNumeric", v |-> n]

OpKinds == {"Eq", "Gt", "GtEq", "Lt", "LtEq", "Tilde", "Caret"}

is_wildcard(t) == t.k = "Star"

(***************************************************************************)
(* Values: Option<T> is <<>> (None) or <<x>> (Some(x)).                    *)
(***************************************************************************)
None == <<>>
Some(x) == <<x>>
IsNone(o) == Len(o) = 0
IsSome(o) == Len(o) = 1

\* Error<'input>
NoErr == [e |-> "none", tok |-> <<>>]
UnexpectedEnd == [e |-> "UnexpectedEnd", tok |-> <<>>]
UnexpectedToken(t) == [e |-> "UnexpectedToken", tok |-> <<t>>]
LexerErr(item) == [e |-> "Lexer", tok |-> <<item>>]
EmptyPredicate == [e |-> "EmptyPredicate", tok |-> <<>>]
\* Not an error of the program: a loop of the model ran out of input to eat.
Diverged == [e |-> "Diverged", tok |-> <<>>]

\* Result<T, Error> together with the parser state the call leaves behind.
Ok(p, v) == [p |-> p, ok |-> TRUE, val |-> v, err |-> NoErr]
Err(p, e) == [p |-> p, ok |-> FALSE, val |-> <<>>, err |-> e]
\* The `?` operator: the error of r becomes the error of the caller.
Fail(r) == [p |-> r.p, ok |-> FALSE, val |-> <<>>, err |-> r.err]

(***************************************************************************)
(* Parser state p: c1 is the lookahead, held as the index in the input of  *)
(* the token it contains (0 is None); pos is the source's cursor, the      *)
(* number of items pulled so far.  popped and iters count, within one      *)
(* call, the tokens pop() handed out and the loop iterations completed;    *)
(* idle tells whether some completed iteration was handed no token.        *)
(***************************************************************************)
Parser(i, n) == [c1 |-> i, pos |-> n, popped |-> 0, iters |-> 0, idle |-> FALSE]

\* The bookkeeping of one completed loop iteration that led from p to q.
Turn(p, q) == [q EXCEPT !.iters = @ + 1, !.idle = @ \/ q.popped = p.popped]

\* An upper bound on the iterations of any loop that eats a token per turn.
Fuel == Len(input) + 1

\* Parser::pop
pop(p) ==
    LET more == p.pos < Len(input)
        lexed == more /\ input[p.pos + 1].k = "LexError"
        p2 == [p EXCEPT !.c1 = IF more THEN p.pos + 1 ELSE 0,
                        !.pos = IF more THEN p.pos + 1 ELSE p.pos]
    IN  IF lexed
          THEN Err([p EXCEPT !.pos = p.pos + 1], LexerErr(input[p.pos + 1]))
          ELSE IF p.c1 = 0
                 THEN Err(p2, UnexpectedEnd)
                 ELSE Ok([p2 EXCEPT !.popped = p.popped + 1], input[p.c1])

\* Parser::peek
peek(p) == IF p.c1 = 0 THEN None ELSE Some(input[p.c1])

PeekIs(p, k) == p.c1 # 0 /\ input[p.c1].k = k

\* `let x = r?; F(x)`: the rest F of a rule runs on an Ok, an Err returns.
Then(r, F(_)) == IF r.ok THEN F(r) ELSE Fail(r)

\* Parser::skip_whitespace
skip_whitespace(p) ==
    IF PeekIs(p, "Whitespace")
      THEN Then(pop(p), LAMBDA r : Ok(r.p, <<>>))
      ELSE Ok(p, <<>>)

\* has_ws_separator!, lines 53-60: the match on the peeked token.
match_separator(p, sep) ==
    IF PeekIs(p, sep)
      THEN Then(pop(p), LAMBDA r2 :
           Then(skip_whitespace(r2.p), LAMBDA r3 : Ok(r3.p, TRUE)))
      ELSE Ok(p, FALSE)

\* has_ws_separator! without the skip_whitespace before the separator.
has_ws_separator_no_lead(p, sep) == match_separator(p, sep)

\* has_ws_separator!(self, Some(&Token::<sep>))
has_ws_separator(p, sep) ==
    Then(skip_whitespace(p), LAMBDA r1 : match_separator(r1.p, sep))

\* Parser::component, lines 186-190: the match on the popped token.
component_of(r) ==
    IF r.val.k = "Numeric" THEN Ok(r.p, Some(r.val.v))
    ELSE IF is_wildcard(r.val) THEN Ok(r.p, None)
    ELSE Err(r.p, UnexpectedToken(r.val))

\* component with the wildcard arm missing.
component_no_wildcard(p) ==
    Then(pop(p), LAMBDA r :
        IF r.val.k = "Numeric" THEN Ok(r.p, Some(r.val.v))
        ELSE Err(r.p, UnexpectedToken(r.val)))

\* Parser::component
component(p) == Then(pop(p), component_of)

\* numeric taking a wildcard token for the number 0.
numeric_wildcard(p) ==
    Then(pop(p), LAMBDA r :
        IF r.val.k = "Numeric" THEN Ok(r.p, r.val.v)
        ELSE IF is_wildcard(r.val) THEN Ok(r.p, 0)
        ELSE Err(r.p, UnexpectedToken(r.val)))

\* Parser::numeric
numeric(p) ==
    Then(pop(p), LAMBDA r :
        IF r.val.k = "Numeric" THEN Ok(r.p, r.val.v)
        ELSE Err(r.p, UnexpectedToken(r.val)))

\* Parser::dot_component; the value is [n |-> Option<u64>, wild |-> bool]
dot_component(p) ==
    IF ~PeekIs(p, "Dot") THEN Ok(p, [n |-> None, wild |-> FALSE])
    ELSE Then(pop(p), LAMBDA r1 :
         Then(component(r1.p), LAMBDA r2 :
              Ok(r2.p, [n |-> r2.val, wild |-> IsNone(r2.val)])))

\* Parser::dot_numeric
dot_numeric(p) ==
    Then(pop(p), LAMBDA r :
        IF r.val.k # "Dot" THEN Err(r.p, UnexpectedToken(r.val))
        ELSE numeric(r.p))

\* Parser::identifier; an Identifier is [k |-> "AlphaNumeric" | "Numeric", v]
identifier(p) ==
    Then(pop(p), LAMBDA r :
        IF r.val.k = "AlphaNumeric" THEN Ok(r.p, Alpha(r.val.v))
        ELSE IF r.val.k = "Numeric" THEN Ok(r.p, Num(r.val.v))
        ELSE Err(r.p, UnexpectedToken(r.val)))

\* The loop of Parser::parts, after the first identifier was pushed.
RECURSIVE parts_loop(_, _)
parts_loop(p, parts) ==
    IF ~PeekIs(p, "Dot") THEN Ok(p, parts)
    ELSE IF p.iters > Fuel THEN Err(p, Diverged)
    ELSE Then(pop(p), LAMBDA r1 :
         Then(identifier(r1.p), LAMBDA r2 :
              parts_loop(Turn(p, r2.p), Append(parts, r2.val))))

\* Parser::parts
parts(p) == Then(identifier(p), LAMBDA r : parts_loop(r.p, <<r.val>>))

\* Parser::pre
pre(p) ==
    IF ~PeekIs(p, "Hyphen") THEN Ok(p, <<>>)
    ELSE Then(pop(p), LAMBDA r : parts(r.p))

\* Parser::plus_build_metadata
plus_build_metadata(p) ==
    IF ~PeekIs(p, "Plus") THEN Ok(p, <<>>)
    ELSE Then(pop(p), LAMBDA r : parts(r.p))

\* The Op a matched operator token stands for.
OpOf(k) ==
    CASE k = "Eq" -> "Ex"
      [] k = "Gt" -> "Gt"
      [] k = "GtEq" -> "GtEq"
      [] k = "Lt" -> "Lt"
      [] k = "LtEq" -> "LtEq"
      [] k = "Tilde" -> "Tilde"
      [] k = "Caret" -> "Caret"

\* op without the skip_whitespace after the matched token.
op_no_skip(p) ==
    IF p.c1 = 0 \/ input[p.c1].k \notin OpKinds THEN Ok(p, "Default")
    ELSE Then(pop(p), LAMBDA r1 : Ok(r1.p, OpOf(input[p.c1].k)))

\* Parser::op
op(p) ==
    IF p.c1 = 0 \/ input[p.c1].k \notin OpKinds THEN Ok(p, "Default")
    ELSE Then(pop(p), LAMBDA r1 :
         Then(skip_whitespace(r1.p), LAMBDA r2 : Ok(r2.p, OpOf(input[p.c1].k))))

\* effective_op with the patch test made an `else if` of the minor test.
effective_op_minor_first(o, minor_wildcard, patch_wildcard) ==
    IF minor_wildcard THEN "WildcardMinor"
    ELSE IF patch_wildcard THEN "WildcardPatch" ELSE o

\* Parser::predicate, lines 340-346: the operator a wildcard component gives.
effective_op(o, minor_wildcard, patch_wildcard) ==
    LET o1 == IF minor_wildcard THEN "WildcardMinor" ELSE o
    IN  IF patch_wildcard THEN "WildcardPatch" ELSE o1

\* Parser::predicate, lines 351-357: the Predicate that is returned.
make_predicate(o, major, minor, patch, prel) ==
    [op |-> o, major |-> major, minor |-> minor, patch |-> patch, pre |-> prel]

\* Parser::predicate, lines 335-357: what follows a numeric major.
predicate_rest(o, major, p) ==
    Then(dot_component(p), LAMBDA r3 :
    Then(dot_component(r3.p), LAMBDA r4 :
    Then(pre(r4.p), LAMBDA r5 :
    Then(plus_build_metadata(r5.p), LAMBDA r6 :
         Ok(r6.p, Some(make_predicate(
                effective_op(o, r3.val.wild, r4.val.wild),
                major, r3.val.n, r4.val.n, r5.val)))))))

\* Parser::predicate
predicate(p) ==
    IF IsNone(peek(p)) THEN Ok(p, None)
    ELSE Then(op(p), LAMBDA r1 :
         Then(component(r1.p), LAMBDA r2 :
              IF IsNone(r2.val) THEN Ok(r2.p, None)
              ELSE predicate_rest(r1.val, r2.val[1], r2.p)))

\* after_comma with a missing predicate passed on as None.
after_comma_lenient(r) ==
    IF IsSome(r.val) THEN Ok(r.p, Some(r.val[1])) ELSE Ok(r.p, None)

\* Parser::comma_predicate, lines 166-170: what a parsed comma turns into.
after_comma(r) ==
    IF IsSome(r.val) THEN Ok(r.p, Some(r.val[1])) ELSE Err(r.p, EmptyPredicate)

\* Parser::comma_predicate
comma_predicate(p) ==
    Then(has_ws_separator(p, "Comma"), LAMBDA r1 :
        IF ~r1.val THEN Ok(r1.p, None)
        ELSE Then(predicate(r1.p), after_comma))

\* range_loop pushing each further predicate at the front.
RECURSIVE range_loop_front(_, _)
range_loop_front(p, predicates) ==
    IF p.iters > Fuel THEN Err(p, Diverged)
    ELSE Then(comma_predicate(p), LAMBDA r :
         IF IsNone(r.val) THEN Ok(r.p, [predicates |-> predicates])
         ELSE range_loop_front(Turn(p, r.p), <<r.val[1]>> \o predicates))

\* The `while let` loop of Parser::range.
RECURSIVE range_loop(_, _)
range_loop(p, predicates) ==
    IF p.iters > Fuel THEN Err(p, Diverged)
    ELSE Then(comma_predicate(p), LAMBDA r :
         IF IsNone(r.val) THEN Ok(r.p, [predicates |-> predicates])
         ELSE range_loop(Turn(p, r.p), Append(predicates, r.val[1])))

\* Parser::range; a VersionReq is [predicates |-> Seq(Predicate)]
range(p) ==
    Then(predicate(p), LAMBDA r :
        IF IsNone(r.val) THEN Ok(r.p, [predicates |-> <<>>])
        ELSE range_loop(r.p, <<r.val[1]>>))

\* or_range, line 179: the range after the separator.
some_range(p) == Then(range(p), LAMBDA r2 : Ok(r2.p, Some(r2.val)))

\* or_range without the early return: a range is parsed at any lookahead.
or_range_always(p) ==
    Then(has_ws_separator(p, "Or"), LAMBDA r1 : some_range(r1.p))

\* Parser::or_range
or_range(p) ==
    Then(has_ws_separator(p, "Or"), LAMBDA r1 :
        IF ~r1.val THEN Ok(r1.p, None) ELSE some_range(r1.p))

\* The `while let` loop of Parser::comparator.
RECURSIVE comparator_loop(_, _)
comparator_loop(p, ranges) ==
    IF p.iters > Fuel THEN Err(p, Diverged)
    ELSE Then(or_range(p), LAMBDA r :
         IF IsNone(r.val) THEN Ok(r.p, [ranges |-> ranges])
         ELSE comparator_loop(Turn(p, r.p), Append(ranges, r.val[1])))

\* comparator without the push of the first range.
comparator_drop_first(p) ==
    Then(range(p), LAMBDA r : comparator_loop(r.p, <<>>))

\* Parser::comparator; a Comparator is [ranges |-> Seq(VersionReq)]
comparator(p) ==
    Then(range(p), LAMBDA r : comparator_loop(r.p, <<r.val>>))

\* Parser::version
version(p) ==
    Then(skip_whitespace(p), LAMBDA r0 :
    Then(numeric(r0.p), LAMBDA r1 :
    Then(dot_numeric(r1.p), LAMBDA r2 :
    Then(dot_numeric(r2.p), LAMBDA r3 :
    Then(pre(r3.p), LAMBDA r4 :
    Then(plus_build_metadata(r4.p), LAMBDA r5 :
    Then(skip_whitespace(r5.p), LAMBDA r6 :
         Ok(r6.p, [major |-> r1.val, minor |-> r2.val, patch |-> r3.val,
                   pre |-> r4.val, build |-> r5.val]))))))))

\* Parser::is_eof
is_eof(p) == Ok(p, p.c1 = 0)

\* The `while let` loop of Parser::tail, draining the token source.
RECURSIVE tail_loop(_, _)
tail_loop(p, out) ==
    IF p.pos >= Len(input) THEN Ok(p, out)
    ELSE IF input[p.pos + 1].k = "LexError"
      THEN Err([p EXCEPT !.pos = @ + 1], LexerErr(input[p.pos + 1]))
      ELSE tail_loop([p EXCEPT !.pos = @ + 1], Append(out, input[p.pos + 1]))

\* Parser::tail
tail(p) ==
    tail_loop([p EXCEPT !.c1 = 0], IF p.c1 = 0 THEN <<>> ELSE <<input[p.c1]>>)

(***************************************************************************)
(* The inputs: every stream of at most MaxLen items over CoreAlphabet,     *)
(* and the streams composed of one or two fragments of requirement and     *)
(* version text joined by a separator.                                     *)
(***************************************************************************)
WS == T("Whitespace")
DOT == T("Dot")
STAR == T("Star")
LEXERR == T("LexError")

CoreAlphabet ==
    {Num(1), DOT, T("Hyphen"), T("Comma"), T("Or"), WS, STAR, T("Caret"), LEXERR}

ShortStreams == UNION {[1..n -> CoreAlphabet] : n \in 0..MaxLen}

\* Requirement and version text that stands alone.
Singles ==
    {<<Num(n)>> : n \in 0..MaxNum}
    \cup {<<T(k), Num(1)>> : k \in OpKinds}
    \cup {<<Num(1), DOT, Num(0), DOT, Num(0), T("Hyphen"), Alpha(0), DOT, Num(1),
            T("Plus"), Alpha(1), DOT, Num(2)>>,
          <<WS, Num(1), DOT, Num(2), DOT, Num(3), T("Plus"), Num(1), WS>>,
          <<Num(1), DOT, Num(2), DOT, STAR, LEXERR>>,
          <<Num(1), DOT, Num(0), DOT, STAR>>,
          <<T("Caret"), Num(1), DOT, STAR, DOT, STAR>>,
          <<T("Tilde"), WS, STAR>>, <<T("Tilde"), Num(1), DOT, STAR>>,
          <<T("Caret"), WS, LEXERR>>, <<STAR, LEXERR>>}

\* The predicates a composed input starts with.
Frags ==
    {<<Num(1)>>, <<STAR>>, <<Num(1), DOT, STAR, DOT, Num(0)>>,
     <<Num(1), DOT, Num(0)>>,
     <<T("GtEq"), Num(1), DOT, Num(2), DOT, Num(3)>>,
     <<Num(1), T("Hyphen"), Alpha(0)>>}

\* The predicates a composed input goes on with.
MoreFrags ==
    {<<>>, <<T("Caret"), STAR>>, <<Num(2), DOT, Num(0)>>,
     <<T("Lt"), Num(2), DOT, Num(0), DOT, Num(0)>>, <<Num(2), T("Comma"), Num(3)>>}

Seps ==
    {<<T("Comma")>>, <<T("Comma"), WS>>, <<WS, T("Comma"), WS>>,
     <<WS, T("Or"), WS>>, <<WS>>}

Composed ==
    Singles \cup {a \o s \o b : a \in Frags, s \in Seps, b \in MoreFrags}

Inputs == ShortStreams \cup Composed

\* Parser::new: the first pull fills the lookahead; a lex error there fails.
new_ok(inp) == Len(inp) = 0 \/ inp[1].k # "LexError"

(***************************************************************************)
(* The state machine: one action per public method of Parser.              *)
(***************************************************************************)
Self == Parser(c1, pos)

Return(name, r) ==
    /\ c1' = r.p.c1
    /\ pos' = r.p.pos
    /\ last' = [call |-> name, pre |-> [c1 |-> c1, pos |-> pos],
                ok |-> r.ok, val |-> r.val, err |-> r.err,
                popped |-> r.p.popped, iters |-> r.p.iters, idle |-> r.p.idle]

Init ==
    /\ input \in {inp \in Inputs : new_ok(inp)}
    /\ c1 = IF Len(input) = 0 THEN 0 ELSE 1
    /\ pos = IF Len(input) = 0 THEN 0 ELSE 1
    /\ last = [call |-> "new", pre |-> [c1 |-> 0, pos |-> 0],
               ok |-> TRUE, val |-> <<>>, err |-> NoErr, popped |-> 0, iters |-> 0, idle |-> FALSE]

CallCommaPredicate == Return("comma_predicate", comma_predicate(Self)) /\ UNCHANGED input
CallComponent == Return("component", component(Self)) /\ UNCHANGED input
CallNumeric == Return("numeric", numeric(Self)) /\ UNCHANGED input
CallDotComponent == Return("dot_component", dot_component(Self)) /\ UNCHANGED input
CallDotNumeric == Return("dot_numeric", dot_numeric(Self)) /\ UNCHANGED input
CallIdentifier == Return("identifier", identifier(Self)) /\ UNCHANGED input
CallOp == Return("op", op(Self)) /\ UNCHANGED input
CallPredicate == Return("predicate", predicate(Self)) /\ UNCHANGED input
CallRange == Return("range", range(Self)) /\ UNCHANGED input
CallComparator == Return("comparator", comparator(Self)) /\ UNCHANGED input
CallVersion == Return("version", version(Self)) /\ UNCHANGED input
CallIsEof == Return("is_eof", is_eof(Self)) /\ UNCHANGED input
CallTail == Return("tail", tail(Self)) /\ UNCHANGED input

Next ==
    \/ CallCommaPredicate
    \/ CallComponent
    \/ CallNumeric
    \/ CallDotComponent
    \/ CallDotNumeric
    \/ CallIdentifier
    \/ CallOp
    \/ CallPredicate
    \/ CallRange
    \/ CallComparator
    \/ CallVersion
    \/ CallIsEof
    \/ CallTail

Spec == Init /\ [][Next]_vars

(***************************************************************************)
(* What the claims speak of, read off the input rather than off the rules. *)
(***************************************************************************)
\* The items at and after the lookahead c, the source's cursor being n.
Rest(c, n) == IF c = 0 THEN <<>> ELSE <<input[c]>> \o SubSeq(input, n + 1, Len(input))

\* The same, before the last call.
PreRest == Rest(last.pre.c1, last.pre.pos)

\* The tokens the last call consumed.
Consumed == SubSeq(PreRest, 1, last.popped)

Unchanged == c1 = last.pre.c1 /\ pos = last.pre.pos

\* The kind of the i-th item of s, "none" beyond its end.
KindAt(s, i) == IF i >= 1 /\ i <= Len(s) THEN s[i].k ELSE "none"

\* s without its first item when that is a whitespace token.
StripWs(s) == IF KindAt(s, 1) = "Whitespace" THEN Tail(s) ELSE s

\* s without a leading operator token and the whitespace after it.
StripOp(s) == IF KindAt(s, 1) \in OpKinds THEN StripWs(Tail(s)) ELSE s

\* s holds a lex error among its first n items.
LexWithin(s, n) == \E i \in 1..n : KindAt(s, i) = "LexError"

\* The operator written at the head of s.
WrittenOp(s) == IF KindAt(s, 1) \in OpKinds THEN OpOf(s[1].k) ELSE "Default"

\* A predicate's text from its major component on.
FromMajor == StripOp(PreRest)
MinorWild == KindAt(FromMajor, 2) = "Dot" /\ KindAt(FromMajor, 3) = "Star"
PatchWild ==
    /\ KindAt(FromMajor, 2) = "Dot"
    /\ KindAt(FromMajor, 3) \in {"Numeric", "Star"}
    /\ KindAt(FromMajor, 4) = "Dot"
    /\ KindAt(FromMajor, 5) = "Star"

PredicateSome == last.call = "predicate" /\ last.ok /\ IsSome(last.val)

(***************************************************************************)
(* C1                                                                      *)
(***************************************************************************)
\* C1 as stated: whenever predicate() returns Some(p), a wildcard minor
\* gives p.op = Wildcard(Minor) even when the patch is a wildcard too,
\* p.op = Wildcard(Patch) only for a wildcard patch after a numeric minor,
\* and p.op is the operator of op() otherwise.
C1_MinorBeforePatch ==
    PredicateSome =>
        /\ MinorWild => last.val[1].op = "WildcardMinor"
        /\ last.val[1].op = "WildcardPatch" => PatchWild /\ ~MinorWild
        /\ ~MinorWild /\ ~PatchWild => last.val[1].op = WrittenOp(PreRest)

\* C1 amended: whenever predicate() returns Some(p), a wildcard patch gives
\* p.op = Wildcard(Patch), also when the minor is a wildcard too (`1.*.*`);
\* a wildcard minor without a wildcard patch gives Wildcard(Minor); with no
\* wildcard p.op is the operator of op().
C1_PatchOverridesMinor ==
    PredicateSome =>
        /\ PatchWild => last.val[1].op = "WildcardPatch"
        /\ MinorWild /\ ~PatchWild => last.val[1].op = "WildcardMinor"
        /\ ~MinorWild /\ ~PatchWild => last.val[1].op = WrittenOp(PreRest)

C1_Witness ==
    /\ PredicateSome
    /\ MinorWild /\ PatchWild
    /\ last.val[1].op = "WildcardPatch"
    /\ KindAt(PreRest, 1) \in OpKinds

(***************************************************************************)
(* C2                                                                      *)
(***************************************************************************)
\* The predicates held by the value of the last call.
PredicatesOf ==
    IF ~last.ok THEN {}
    ELSE IF last.call \in {"predicate", "comma_predicate"}
      THEN {last.val[i] : i \in 1..Len(last.val)}
    ELSE IF last.call = "range"
      THEN {last.val.predicates[i] : i \in 1..Len(last.val.predicates)}
    ELSE IF last.call = "comparator"
      THEN UNION {{last.val.ranges[j].predicates[i] :
                     i \in 1..Len(last.val.ranges[j].predicates)} :
                  j \in 1..Len(last.val.ranges)}
    ELSE {}

\* C2: every Predicate returned by predicate(), and every one held by the
\* VersionReq of range() or the Comparator of comparator(), has no patch
\* when it has no minor.
C2_NoPatchWithoutMinor ==
    \A q \in PredicatesOf : IsNone(q.minor) => IsNone(q.patch)

(***************************************************************************)
(* C3                                                                      *)
(***************************************************************************)
\* What op() is to do on a lookahead that is an operator token.
OpConsumes == IF KindAt(PreRest, 2) = "Whitespace" THEN 2 ELSE 1

\* C3 as stated: op() returns Ok from every state; on an operator lookahead
\* it consumes the token and at most one whitespace token after it and
\* returns the matching Op, on any other lookahead it changes nothing and
\* returns Compatible(Default).
C3_OpNeverFails ==
    last.call = "op" =>
        /\ last.ok
        /\ IF KindAt(PreRest, 1) \in OpKinds
             THEN /\ last.val = OpOf(PreRest[1].k)
                  /\ last.popped = OpConsumes
             ELSE last.val = "Default" /\ Unchanged

\* C3 amended: op() fails with the lexer's error when the item pulled after
\* the operator token, or after the whitespace token that follows it, is a
\* lex error; in every other state it returns Ok, as stated.
C3_OpFailsOnlyOnLexError ==
    last.call = "op" =>
        IF KindAt(PreRest, 1) \in OpKinds
          THEN IF LexWithin(PreRest, OpConsumes + 1)
                 THEN ~last.ok /\ last.err.e = "Lexer"
                 ELSE /\ last.ok
                      /\ last.val = OpOf(PreRest[1].k)
                      /\ last.popped = OpConsumes
                      /\ Consumed = SubSeq(PreRest, 1, OpConsumes)
          ELSE last.ok /\ last.val = "Default" /\ Unchanged /\ last.popped = 0

C3_Witness ==
    /\ last.call = "op"
    /\ ~last.ok
    /\ last.err.e = "Lexer"
    /\ KindAt(PreRest, 2) = "Whitespace"
    /\ KindAt(PreRest, 3) = "LexError"

(***************************************************************************)
(* C4                                                                      *)
(***************************************************************************)
\* The text after a comma that opens the lookahead, optional whitespace
\* before and after the comma set aside.
AfterComma == StripWs(Tail(StripWs(PreRest)))

\* The lookahead is, after optional whitespace, a comma, and the predicate
\* after it is missing: the input ends, or a wildcard major follows.
DanglingComma ==
    /\ KindAt(StripWs(PreRest), 1) = "Comma"
    /\ \/ AfterComma = <<>>
       \/ /\ KindAt(StripOp(AfterComma), 1) = "Star"
          /\ KindAt(StripOp(AfterComma), 2) # "LexError"

\* In s, the comma at i is followed by the major component of a predicate.
CommaHasPredicate(s, i) ==
    KindAt(StripOp(StripWs(SubSeq(s, i + 1, Len(s)))), 1) = "Numeric"

CountKind(s, k) == Cardinality({i \in 1..Len(s) : s[i].k = k})

\* C4: comma_predicate() on a dangling comma returns Err(EmptyPredicate),
\* and range() never returns Ok having consumed a comma that no stored
\* predicate follows.
C4_DanglingCommaIsEmptyPredicate ==
    /\ last.call = "comma_predicate" /\ DanglingComma =>
           ~last.ok /\ last.err = EmptyPredicate
    /\ last.call = "range" /\ last.ok =>
           /\ \A i \in 1..Len(Consumed) :
                  Consumed[i].k = "Comma" => CommaHasPredicate(Consumed, i)
           /\ CountKind(Consumed, "Comma") > 0 =>
                  Len(last.val.predicates) > CountKind(Consumed, "Comma")

C4_Witness ==
    /\ last.call = "comma_predicate"
    /\ DanglingComma
    /\ KindAt(StripOp(AfterComma), 1) = "Star"
    /\ KindAt(AfterComma, 1) \in OpKinds
    /\ last.err = EmptyPredicate

(***************************************************************************)
(* C5                                                                      *)
(***************************************************************************)
\* s without its leading whitespace tokens.
RECURSIVE StripAllWs(_)
StripAllWs(s) == IF KindAt(s, 1) = "Whitespace" THEN StripAllWs(Tail(s)) ELSE s

\* C5 as stated: whenever the next token that is not whitespace is not a
\* comma, comma_predicate() returns Ok(None) and leaves the lookahead and
\* the source's cursor as they were.
C5_NoCommaConsumesNothing ==
    last.call = "comma_predicate" /\ KindAt(StripAllWs(PreRest), 1) # "Comma" =>
        last.ok /\ IsNone(last.val) /\ Unchanged

\* C5 amended: when the lookahead is neither whitespace nor a comma,
\* comma_predicate() returns Ok(None) and changes nothing; when it is a
\* whitespace token that no comma follows, comma_predicate() consumes that
\* one whitespace token and returns Ok(None), or fails with the lexer's
\* error when the item pulled after the whitespace is a lex error.
C5_NoCommaConsumesOneWhitespace ==
    last.call = "comma_predicate" =>
        /\ KindAt(PreRest, 1) \notin {"Whitespace", "Comma"} =>
               last.ok /\ IsNone(last.val) /\ Unchanged /\ last.popped = 0
        /\ KindAt(PreRest, 1) = "Whitespace" /\ KindAt(PreRest, 2) # "Comma" =>
               IF KindAt(PreRest, 2) = "LexError"
                 THEN ~last.ok /\ last.err.e = "Lexer" /\ last.popped = 0
                 ELSE /\ last.ok /\ IsNone(last.val)
                      /\ Consumed = <<PreRest[1]>>
                      /\ Rest(c1, pos) = Tail(PreRest)

C5_Witness ==
    /\ last.call = "comma_predicate"
    /\ KindAt(PreRest, 1) = "Whitespace"
    /\ KindAt(PreRest, 2) = "Or"
    /\ last.ok /\ IsNone(last.val)
    /\ ~Unchanged

(***************************************************************************)
(* C6                                                                      *)
(***************************************************************************)
\* The major component of the predicate at the lookahead is a wildcard
\* token, and the source hands it out.
WildcardMajor ==
    /\ KindAt(FromMajor, 1) = "Star"
    /\ KindAt(FromMajor, 2) # "LexError"

\* C6: predicate() returns Ok(None) on an empty lookahead, consuming
\* nothing, and on a wildcard major whatever operator precedes it; every
\* other successful parse returns Some(p) with p.major the value of the
\* numeric token in the major position.
C6_NoneExactlyForAnyVersion ==
    last.call = "predicate" =>
        /\ last.pre.c1 = 0 => last.ok /\ IsNone(last.val) /\ Unchanged
        /\ WildcardMajor =>
               /\ last.ok /\ IsNone(last.val)
               /\ Len(Consumed) + Len(FromMajor) = Len(PreRest) + 1
        /\ last.ok /\ IsNone(last.val) =>
               last.pre.c1 = 0 \/ KindAt(FromMajor, 1) = "Star"
        /\ last.ok /\ IsSome(last.val) =>
               /\ KindAt(FromMajor, 1) = "Numeric"
               /\ last.val[1].major = FromMajor[1].v

C6_Witness ==
    /\ last.call = "predicate"
    /\ WildcardMajor
    /\ KindAt(PreRest, 1) \in OpKinds
    /\ last.ok /\ IsNone(last.val)

(***************************************************************************)
(* C7                                                                      *)
(***************************************************************************)
\* The index in s of its j-th token of kind k; 0 for j = 0 and Len(s) + 1
\* when s holds fewer than j of them.
NthOf(s, k, j) ==
    LET at == {i \in 1..Len(s) : s[i].k = k /\ CountKind(SubSeq(s, 1, i), k) = j}
    IN  IF j = 0 THEN 0
        ELSE IF at = {} THEN Len(s) + 1
        ELSE CHOOSE i \in at : TRUE

\* The j-th of the pieces the tokens of kind k cut s into.
Piece(s, k, j) == SubSeq(s, NthOf(s, k, j - 1) + 1, NthOf(s, k, j) - 1)

\* The value of the first numeric token of s, in an Option.
FirstNumeric(s) ==
    LET at == {i \in 1..Len(s) : s[i].k = "Numeric" /\ CountKind(SubSeq(s, 1, i), "Numeric") = 1}
    IN  IF at = {} THEN None ELSE Some(s[CHOOSE i \in at : TRUE].v)

\* The major components written in the text s of one range, in order.
MajorsIn(s) ==
    IF CountKind(s, "Numeric") = 0 THEN <<>>
    ELSE [j \in 1..(CountKind(s, "Comma") + 1) |-> FirstNumeric(Piece(s, "Comma", j))]

\* The major components held by a VersionReq, in order.
MajorsOf(req) == [j \in 1..Len(req.predicates) |-> Some(req.predicates[j].major)]

P(o, major, minor, patch) == make_predicate(o, major, minor, patch, <<>>)

GtEqLtText ==
    <<T("GtEq"), Num(1), DOT, Num(2), DOT, Num(3), T("Comma"), WS,
      T("Lt"), Num(2), DOT, Num(0), DOT, Num(0)>>

\* C7: a successful range() whose first predicate is Some returns exactly
\* 1 + (commas consumed) predicates in the order of the text; one whose
\* first predicate is None returns no predicate and consumes no comma;
\* `>=1.2.3, <2.0.0` gives [(GtEq,1,2,3), (Lt,2,0,0)].
C7_RangeKeepsCommaOrder ==
    last.call = "range" =>
        /\ last.ok =>
               IF last.pre.c1 = 0 \/ KindAt(FromMajor, 1) = "Star"
                 THEN /\ last.val.predicates = <<>>
                      /\ CountKind(Consumed, "Comma") = 0
                 ELSE /\ Len(last.val.predicates) = 1 + CountKind(Consumed, "Comma")
                      /\ MajorsOf(last.val) = MajorsIn(Consumed)
        /\ PreRest = GtEqLtText =>
               /\ last.ok
               /\ last.val.predicates =
                      <<P("GtEq", 1, Some(2), Some(3)), P("Lt", 2, Some(0), Some(0))>>

C7_Witness ==
    /\ last.call = "range"
    /\ last.ok
    /\ CountKind(Consumed, "Comma") = 2
    /\ Len(last.val.predicates) = 3
    /\ last.val.predicates[1].major # last.val.predicates[3].major

(***************************************************************************)
(* C8                                                                      *)
(***************************************************************************)
OrText == <<Num(1), DOT, Num(0), WS, T("Or"), WS, Num(2), DOT, Num(0)>>

\* C8: a successful comparator() returns exactly 1 + (`||` consumed) ranges,
\* at least one, each holding the predicates of its piece of the text in
\* order; `1.0 || 2.0` gives the two ranges [(Default,1,0,None)] and
\* [(Default,2,0,None)].
C8_ComparatorKeepsOrRanges ==
    last.call = "comparator" =>
        /\ last.ok =>
               /\ Len(last.val.ranges) = 1 + CountKind(Consumed, "Or")
               /\ \A j \in 1..Len(last.val.ranges) :
                      MajorsOf(last.val.ranges[j]) = MajorsIn(Piece(Consumed, "Or", j))
        /\ PreRest = OrText =>
               /\ last.ok
               /\ last.val.ranges =
                      << [predicates |-> <<P("Default", 1, Some(0), None)>>],
                         [predicates |-> <<P("Default", 2, Some(0), None)>>] >>

C8_Witness ==
    /\ last.call = "comparator"
    /\ PreRest = OrText
    /\ last.ok
    /\ Len(last.val.ranges) = 2
    /\ c1 = 0

(***************************************************************************)
(* C9                                                                      *)
(***************************************************************************)
IdKinds == {"AlphaNumeric", "Numeric"}

\* The index at which the identifier list that starts at s[i] ends.
RECURSIVE IdListEnd(_, _)
IdListEnd(s, i) == IF KindAt(s, i + 1) = "Dot" THEN IdListEnd(s, i + 2) ELSE i

\* s[i..j] is identifier (`.` identifier)*
IsIdList(s, i, j) ==
    /\ i <= j
    /\ \A n \in i..j : IF (n - i) % 2 = 0 THEN s[n].k \in IdKinds ELSE s[n].k = "Dot"

\* The identifiers of the identifier list s[i..j].
IdsOf(s, i, j) == [n \in 1..((j - i) \div 2 + 1) |-> s[i + 2 * (n - 1)]]

\* The identifier list that the mark `mark` opens at s[i]: where the text
\* goes on after it, whether it is well formed, and its identifiers.
Suffix(s, i, mark) ==
    IF KindAt(s, i) = mark
      THEN LET e == IdListEnd(s, i + 1)
           IN  [next |-> e + 1, good |-> IsIdList(s, i + 1, e),
                ids |-> IF IsIdList(s, i + 1, e) THEN IdsOf(s, i + 1, e) ELSE <<>>]
      ELSE [next |-> i, good |-> TRUE, ids |-> <<>>]

\* The Version that the text s spells, in an Option: s is
\* [whitespace] numeric `.` numeric `.` numeric [pre] [build] [whitespace].
VersionText(s) ==
    LET t == StripWs(s)
        a == Suffix(t, 6, "Hyphen")
        b == Suffix(t, a.next, "Plus")
        end == IF KindAt(t, b.next) = "Whitespace" THEN b.next + 1 ELSE b.next
    IN  IF /\ KindAt(t, 1) = "Numeric" /\ KindAt(t, 2) = "Dot"
           /\ KindAt(t, 3) = "Numeric" /\ KindAt(t, 4) = "Dot"
           /\ KindAt(t, 5) = "Numeric"
           /\ a.good /\ b.good /\ end = Len(t) + 1
          THEN Some([major |-> t[1].v, minor |-> t[3].v, patch |-> t[5].v,
                     pre |-> a.ids, build |-> b.ids])
          ELSE None

\* The text at the lookahead has a wildcard token as the n-th of the three
\* components of a version, which the source hands out.
WildcardIn(n) ==
    LET t == StripWs(PreRest) IN
    /\ \A i \in 1..(2 * n - 2) :
           KindAt(t, i) = IF i % 2 = 1 THEN "Numeric" ELSE "Dot"
    /\ KindAt(t, 2 * n - 1) = "Star"
    /\ KindAt(t, 2 * n) # "LexError"

\* C9: version() returns Ok only on text of the shape [whitespace] numeric
\* `.` numeric `.` numeric [pre] [build] [whitespace], with the Version
\* that text spells, both identifier lists in order; a wildcard token as
\* major, minor or patch fails with UnexpectedToken of that token, and an
\* empty lookahead with no lex error to pull (so, an empty input) fails with
\* UnexpectedEnd.
C9_VersionIsFullAndNumeric ==
    last.call = "version" =>
        /\ last.ok => VersionText(Consumed) = Some(last.val)
        /\ \A n \in 1..3 : WildcardIn(n) =>
               ~last.ok /\ last.err = UnexpectedToken(STAR)
        /\ last.pre.c1 = 0 /\ KindAt(input, last.pre.pos + 1) # "LexError" =>
               ~last.ok /\ last.err = UnexpectedEnd

C9_Witness ==
    /\ last.call = "version"
    /\ WildcardIn(3)
    /\ last.err = UnexpectedToken(STAR)
    /\ last.popped = 5

(***************************************************************************)
(* C10                                                                     *)
(***************************************************************************)
\* C10: no call runs a loop out of input: every call returns Ok or an error
\* of the program, every completed iteration of the loops of parts(),
\* range() and comparator() consumed a token, and the source never hands
\* out more items than the input holds.
C10_LoopsConsumeAndEnd ==
    /\ last.err # Diverged
    /\ ~last.idle
    /\ last.iters <= last.popped
    /\ last.popped <= Len(input)
    /\ pos <= Len(input)
    /\ last.ok \/ last.err.e \in
           {"UnexpectedEnd", "UnexpectedToken", "Lexer", "EmptyPredicate"}

C10_Witness ==
    /\ last.call = "comparator"
    /\ last.ok
    /\ last.iters >= 2
    /\ last.popped = Len(input)

====
